---------------------------- MODULE Spec2Model ----------------------------
(***************************************************************************)
(* Model of src/src/preprocessing/target_encoder.py: CustomTargetEncoder   *)
(* (construction, fit, transform), the schema-driven factory and the       *)
(* joblib save / load pair.                                                *)
(*                                                                         *)
(* Python values are tagged records [t, i, s] so that the integer 1 and    *)
(* the string "1" are different values with the same string form.          *)
(* A DataFrame is [columns, nrows, col]: the set of column names, the      *)
(* number of rows and, per name, the column's cells in row order.          *)
(***************************************************************************)
EXTENDS Integers, Sequences, FiniteSets, TLC

VARIABLES
    schema,     \* the data schema the encoder was built from (never written)
    encoder,    \* the CustomTargetEncoder instance
    file,       \* the artifact at the save path (NoFile until saved)
    loaded,     \* the instance load_target_encoder returned (NoObj until loaded)
    last,       \* the operation that ran last
    arg,        \* the dataset as it was passed to the last call
    data,       \* the same dataset after the call returned
    returned,   \* what the last fit call returned
    outcome,    \* what the last transform call returned or raised
    tdata,      \* concurrent callers: each caller's dataset
    pc,         \* concurrent callers: each caller's position in transform
    targets,    \* concurrent callers: local `targets`
    observed,   \* concurrent callers: local `observed_classes`
    tret        \* concurrent callers: each caller's outcome

vars == <<schema, encoder, file, loaded, last, arg, data, returned, outcome,
          tdata, pc, targets, observed, tret>>

seqvars == <<last, arg, data, returned, outcome>>
concvars == <<tdata, pc, targets, observed, tret>>

----------------------------------------------------------------------------
(* Bounds *)

MaxRows == 3
MaxAllowed == 3
NCallers == 2

----------------------------------------------------------------------------
(* Python values and str() *)

IntV(n) == [t |-> "int", i |-> n, s |-> ""]
StrV(x) == [t |-> "str", i |-> 0, s |-> x]

Digit == <<"0", "1", "2", "3", "4", "5", "6", "7", "8", "9">>

RECURSIVE IntStr(_)
IntStr(n) ==
    IF n < 0 THEN "-" \o IntStr(-n)
    ELSE IF n < 10 THEN Digit[n + 1]
    ELSE IntStr(n \div 10) \o Digit[(n % 10) + 1]

\* str(c): the decimal rendering of an int, a str unchanged
Str(v) == IF v.t = "int" THEN IntStr(v.i) ELSE v.s

Range(f) == {f[k] : k \in DOMAIN f}

\* the labels and cell values the inputs are drawn from
RawValues == {IntV(1), StrV("1"), StrV("A"), StrV("B")}

ColumnNames == {"target", "id"}

----------------------------------------------------------------------------
(* Datasets *)

NoCells == <<>>

\* pd.DataFrame(): no columns, no rows
EmptyFrame ==
    [columns |-> {}, nrows |-> 0, col |-> [c \in ColumnNames |-> NoCells]]

\* a dataset with the given columns and no rows yet
NewFrame(cols) ==
    [columns |-> cols, nrows |-> 0, col |-> [c \in ColumnNames |-> NoCells]]

\* one more row: label v in the target column, the row number in the id column
AppendRow(d, v) ==
    [columns |-> d.columns,
     nrows |-> d.nrows + 1,
     col |-> [c \in ColumnNames |->
                IF c \notin d.columns THEN NoCells
                ELSE IF c = "target" THEN Append(d.col[c], v)
                ELSE Append(d.col[c], IntV(d.nrows + 1))]]

----------------------------------------------------------------------------
(* CustomTargetEncoder *)

NaN == -1

NoObj == [id |-> 0, target_field |-> "", classes_ |-> <<>>,
          class_encoding |-> [k \in {} |-> 0]]

SwappedCodes(classes) ==
    [k \in {classes[1], classes[2]} |-> IF k = classes[2] THEN 0 ELSE 1]

\* {classes_[0]: 0, classes_[1]: 1}: a dict display keeps the last value
\* given for a repeated key
ClassEncoding(classes) ==
    [k \in {classes[1], classes[2]} |-> IF k = classes[2] THEN 1 ELSE 0]

CustomTargetEncoder(id, target_field, allowed_values) ==
    LET classes == [k \in DOMAIN allowed_values |-> Str(allowed_values[k])]
    IN  [id |-> id,
         target_field |-> target_field,
         classes_ |-> classes,
         class_encoding |-> ClassEncoding(classes)]

fit(self, d) == [ret |-> self, self |-> self, data |-> d]

NoOutcome == [kind |-> "", codes |-> <<>>]
Series(codes) == [kind |-> "Series", codes |-> codes]
None == [kind |-> "None", codes |-> <<>>]
Raise(kind) == [kind |-> kind, codes |-> <<>>]

HasColumn(self, d) == self.target_field \in d.columns

AsTypeStr(column) == [k \in DOMAIN column |-> Str(column[k])]

AcceptsMoreClasses(obs) == Cardinality(obs) < 2

WrongClassCount(obs) == Cardinality(obs) # 2

AcceptsOneKnownClass(self, obs) ==
    Cardinality(obs \cap Range(self.classes_)) < 1

MatchesDistinctClasses(self, obs) ==
    Cardinality(obs \cap Range(self.classes_)) # Cardinality(Range(self.classes_))

ClassMismatch(self, obs) ==
    Cardinality(obs \cap Range(self.classes_)) # 2

\* targets.apply(str).map(self.class_encoding): a key the dict lacks maps to NaN
MapEncoding(self, tg) ==
    [k \in DOMAIN tg |->
        LET key == Str(StrV(tg[k]))
        IN  IF key \in DOMAIN self.class_encoding
            THEN self.class_encoding[key] ELSE NaN]

Validate(self, tg) ==
    IF WrongClassCount(Range(tg)) THEN Raise("WrongClassCount")
    ELSE IF ClassMismatch(self, Range(tg)) THEN Raise("ClassMismatch")
    ELSE Series(MapEncoding(self, tg))

transformCaching(self, d) ==
    [ret |-> IF HasColumn(self, d)
             THEN Validate(self, AsTypeStr(d.col[self.target_field]))
             ELSE None,
     self |-> IF HasColumn(self, d)
              THEN [self EXCEPT !.classes_ = AsTypeStr(d.col[self.target_field])]
              ELSE self,
     data |-> d]

transformNoneOnEmpty(self, d) ==
    [ret |-> IF HasColumn(self, d) /\ d.col[self.target_field] # NoCells
             THEN Validate(self, AsTypeStr(d.col[self.target_field]))
             ELSE None,
     self |-> self,
     data |-> d]

transform(self, d) ==
    [ret |-> IF HasColumn(self, d)
             THEN Validate(self, AsTypeStr(d.col[self.target_field]))
             ELSE None,
     self |-> self,
     data |-> d]

TargetFields == ColumnNames

Schemas ==
    {[target |-> f, allowed_target_values |-> av] :
        f \in TargetFields,
        av \in UNION {[1..n -> RawValues] : n \in 2..MaxAllowed}}

get_target_encoder(data_schema) ==
    CustomTargetEncoder(1, data_schema.target, data_schema.allowed_target_values)

----------------------------------------------------------------------------
(* joblib.dump / joblib.load of the instance: the pickle of its __dict__ *)

NoFile == [cls |-> "", state |-> <<>>]

AttrStr(name, x) == [name |-> name, str |-> x, list |-> <<>>, items |-> <<>>]
AttrList(name, l) == [name |-> name, str |-> "", list |-> l, items |-> <<>>]
AttrDict(name, i) == [name |-> name, str |-> "", list |-> <<>>, items |-> i]

\* the (key, value) pairs of a dict, each key once
DictItems(d) ==
    LET keys == CHOOSE q \in [1..Cardinality(DOMAIN d) -> DOMAIN d] : Range(q) = DOMAIN d
    IN  [k \in DOMAIN keys |-> <<keys[k], d[keys[k]]>>]

\* a dict rebuilt from its pairs: a later pair replaces an earlier one
DictOfItems(items) ==
    [key \in {items[k][1] : k \in DOMAIN items} |->
        LET at == CHOOSE k \in DOMAIN items :
                    /\ items[k][1] = key
                    /\ \A j \in DOMAIN items : items[j][1] = key => j <= k
        IN  items[at][2]]

Attr(blob, name) == CHOOSE e \in Range(blob.state) : e.name = name

Pickle(obj) ==
    [cls |-> "CustomTargetEncoder",
     state |-> << AttrStr("target_field", obj.target_field),
                  AttrList("classes_", obj.classes_),
                  AttrDict("class_encoding", DictItems(obj.class_encoding)) >>]

UnpickleParamsOnly(blob, id) ==
    [id |-> id,
     target_field |-> Attr(blob, "target_field").str,
     classes_ |-> Attr(blob, "classes_").list,
     class_encoding |-> [k \in {} |-> 0]]

Unpickle(blob, id) ==
    [id |-> id,
     target_field |-> Attr(blob, "target_field").str,
     classes_ |-> Attr(blob, "classes_").list,
     class_encoding |-> DictOfItems(Attr(blob, "class_encoding").items)]

save_target_encoder(target_encoder) == Pickle(target_encoder)

load_target_encoder(blob) == Unpickle(blob, 2)

----------------------------------------------------------------------------
(* Sequential use: any sequence of fit and transform calls *)


InitCommon ==
    /\ schema \in Schemas
    /\ encoder = get_target_encoder(schema)
    /\ file = NoFile
    /\ loaded = NoObj
    /\ last = "init"
    /\ arg = EmptyFrame
    /\ data = EmptyFrame
    /\ returned = NoObj
    /\ outcome = NoOutcome

ConcIdle ==
    /\ tdata = [c \in 1..NCallers |-> EmptyFrame]
    /\ pc = [c \in 1..NCallers |-> "idle"]
    /\ targets = [c \in 1..NCallers |-> <<>>]
    /\ observed = [c \in 1..NCallers |-> {}]
    /\ tret = [c \in 1..NCallers |-> NoOutcome]

Init == InitCommon /\ ConcIdle

\* the caller prepares a dataset
Build(d) ==
    /\ last' = "build"
    /\ data' = d
    /\ arg' = d
    /\ returned' = NoObj
    /\ outcome' = NoOutcome
    /\ UNCHANGED <<schema, encoder, file, loaded>>
    /\ UNCHANGED concvars

StartFrame(cols) == Build(NewFrame(cols))

AddRow(v) ==
    /\ data.columns # {}
    /\ data.nrows < MaxRows
    /\ Build(AppendRow(data, v))

Fit ==
    LET r == fit(encoder, data)
    IN  /\ last' = "fit"
        /\ arg' = data
        /\ data' = r.data
        /\ encoder' = r.self
        /\ returned' = r.ret
        /\ outcome' = NoOutcome
        /\ UNCHANGED <<schema, file, loaded>>
        /\ UNCHANGED concvars

Transform ==
    LET r == transform(encoder, data)
    IN  /\ last' = "transform"
        /\ arg' = data
        /\ data' = r.data
        /\ encoder' = r.self
        /\ returned' = NoObj
        /\ outcome' = r.ret
        /\ UNCHANGED <<schema, file, loaded>>
        /\ UNCHANGED concvars

Next ==
    \/ \E cols \in SUBSET ColumnNames : StartFrame(cols)
    \/ \E v \in RawValues : AddRow(v)
    \/ Fit
    \/ Transform

Spec == Init /\ [][Next]_vars

----------------------------------------------------------------------------
(* Persistence: save the encoder, load it back, transform with the copy *)

Save ==
    /\ file' = save_target_encoder(encoder)
    /\ UNCHANGED <<schema, encoder, loaded>>
    /\ UNCHANGED seqvars
    /\ UNCHANGED concvars

Load ==
    /\ file # NoFile
    /\ loaded' = load_target_encoder(file)
    /\ UNCHANGED <<schema, encoder, file>>
    /\ UNCHANGED seqvars
    /\ UNCHANGED concvars

TransformLoaded ==
    /\ loaded # NoObj
    /\ LET r == transform(loaded, data)
       IN  /\ last' = "transform_loaded"
           /\ arg' = data
           /\ data' = r.data
           /\ loaded' = r.self
           /\ returned' = NoObj
           /\ outcome' = r.ret
    /\ UNCHANGED <<schema, encoder, file>>
    /\ UNCHANGED concvars

NextPersist ==
    \/ \E cols \in SUBSET ColumnNames : StartFrame(cols)
    \/ \E v \in RawValues : AddRow(v)
    \/ Save
    \/ Load
    \/ TransformLoaded

SpecPersist == Init /\ [][NextPersist]_vars

----------------------------------------------------------------------------
(* Concurrent callers of transform on one instance, one statement per step *)

RECURSIVE FrameOf(_, _)
FrameOf(cols, cells) ==
    IF cells = <<>> THEN NewFrame(cols)
    ELSE AppendRow(FrameOf(cols, SubSeq(cells, 1, Len(cells) - 1)), cells[Len(cells)])

ConcFrames ==
    { FrameOf({"id"}, <<StrV("A"), StrV("B")>>),
      FrameOf({"target"}, <<StrV("B"), StrV("A"), StrV("B")>>),
      FrameOf({"target", "id"}, <<IntV(1), StrV("A"), StrV("1")>>),
      FrameOf({"target"}, <<StrV("A"), StrV("A")>>),
      FrameOf({"target"}, <<StrV("A"), StrV("B"), IntV(1)>>),
      FrameOf({"target", "id"}, <<StrV("A"), StrV("1")>>) }

ConcSchemas ==
    {[target |-> "target", allowed_target_values |-> av] :
        av \in { <<StrV("A"), StrV("B")>>,
                 <<StrV("A"), IntV(1)>>,
                 <<StrV("A"), StrV("B"), StrV("1")>>,
                 <<IntV(1), StrV("1")>> }}

InitConc ==
    /\ schema \in ConcSchemas
    /\ encoder = get_target_encoder(schema)
    /\ file = NoFile
    /\ loaded = NoObj
    /\ last = "init"
    /\ arg = EmptyFrame
    /\ data = EmptyFrame
    /\ returned = NoObj
    /\ outcome = NoOutcome
    /\ tdata \in [1..NCallers -> ConcFrames]
    /\ pc = [c \in 1..NCallers |-> "l46"]
    /\ targets = [c \in 1..NCallers |-> <<>>]
    /\ observed = [c \in 1..NCallers |-> {}]
    /\ tret = [c \in 1..NCallers |-> NoOutcome]

ConcFrame == UNCHANGED <<schema, file, loaded, tdata>> /\ UNCHANGED seqvars

\* if self.target_field in data.columns: ... else: transformed_targets = None
CheckColumn(c) ==
    /\ pc[c] = "l46"
    /\ IF HasColumn(encoder, tdata[c])
       THEN pc' = [pc EXCEPT ![c] = "l47"] /\ UNCHANGED tret
       ELSE pc' = [pc EXCEPT ![c] = "done"] /\ tret' = [tret EXCEPT ![c] = None]
    /\ UNCHANGED <<encoder, targets, observed>>
    /\ ConcFrame

\* targets = data[self.target_field].astype(str)
ReadTargets(c) ==
    /\ pc[c] = "l47"
    /\ targets' = [targets EXCEPT ![c] = AsTypeStr(tdata[c].col[encoder.target_field])]
    /\ pc' = [pc EXCEPT ![c] = "l48"]
    /\ UNCHANGED <<encoder, observed, tret>>
    /\ ConcFrame

ObserveAndRemember(c) ==
    /\ pc[c] = "l48"
    /\ observed' = [observed EXCEPT ![c] = Range(targets[c])]
    /\ encoder' = [encoder EXCEPT !.classes_ = targets[c]]
    /\ pc' = [pc EXCEPT ![c] = "l49"]
    /\ UNCHANGED <<targets, tret>>
    /\ ConcFrame

\* observed_classes = set(targets)
Observe(c) ==
    /\ pc[c] = "l48"
    /\ observed' = [observed EXCEPT ![c] = Range(targets[c])]
    /\ pc' = [pc EXCEPT ![c] = "l49"]
    /\ UNCHANGED <<encoder, targets, tret>>
    /\ ConcFrame

\* if len(observed_classes) != 2: raise ValueError
CheckCount(c) ==
    /\ pc[c] = "l49"
    /\ IF WrongClassCount(observed[c])
       THEN /\ pc' = [pc EXCEPT ![c] = "done"]
            /\ tret' = [tret EXCEPT ![c] = Raise("WrongClassCount")]
       ELSE pc' = [pc EXCEPT ![c] = "l51"] /\ UNCHANGED tret
    /\ UNCHANGED <<encoder, targets, observed>>
    /\ ConcFrame

\* if len(observed_classes.intersection(self.classes_)) != 2: raise ValueError
CheckMatch(c) ==
    /\ pc[c] = "l51"
    /\ IF ClassMismatch(encoder, observed[c])
       THEN /\ pc' = [pc EXCEPT ![c] = "done"]
            /\ tret' = [tret EXCEPT ![c] = Raise("ClassMismatch")]
       ELSE pc' = [pc EXCEPT ![c] = "l53"] /\ UNCHANGED tret
    /\ UNCHANGED <<encoder, targets, observed>>
    /\ ConcFrame

\* transformed_targets = targets.apply(str).map(self.class_encoding); return
MapCodes(c) ==
    /\ pc[c] = "l53"
    /\ tret' = [tret EXCEPT ![c] = Series(MapEncoding(encoder, targets[c]))]
    /\ pc' = [pc EXCEPT ![c] = "done"]
    /\ UNCHANGED <<encoder, targets, observed>>
    /\ ConcFrame

NextConc ==
    \E c \in 1..NCallers :
        \/ CheckColumn(c)
        \/ ReadTargets(c)
        \/ Observe(c)
        \/ CheckCount(c)
        \/ CheckMatch(c)
        \/ MapCodes(c)

SpecConc == InitConc /\ [][NextConc]_vars

----------------------------------------------------------------------------
(* Properties *)

Labels == schema.allowed_target_values
LabelA == Str(Labels[1])
LabelB == Str(Labels[2])

\* the dataset of the last call has the configured target column
TargetPresent == schema.target \in arg.columns

\* the cells of that column as passed, and their string forms
Cells == arg.col[schema.target]
CellStrings == {Str(Cells[k]) : k \in DOMAIN Cells}

Transformed == last = "transform"

\* C1: an encoder configured with two labels (a, b) whose string forms differ,
\* given a target column whose stringified values are exactly str(a) and
\* str(b), returns one code per row in row order: 0 where the row's string
\* form is str(a), 1 where it is str(b), whatever the order, the multiplicity
\* or the original type of the values.
C1_TransformEncodes ==
    ( /\ Transformed
      /\ Len(Labels) = 2
      /\ LabelA # LabelB
      /\ TargetPresent
      /\ CellStrings = {LabelA, LabelB} )
    => /\ outcome.kind = "Series"
       /\ Len(outcome.codes) = arg.nrows
       /\ Len(Cells) = arg.nrows
       /\ \A k \in 1..arg.nrows :
             outcome.codes[k] = (IF Str(Cells[k]) = LabelA THEN 0 ELSE 1)

\* label b (an int) comes first and more often, and the column mixes 1 and "1"
C1_Witness ==
    /\ Transformed
    /\ Labels = <<StrV("A"), IntV(1)>>
    /\ TargetPresent
    /\ Cells = <<StrV("1"), StrV("A"), IntV(1)>>
    /\ outcome = Series(<<1, 0, 1>>)

\* C2: with the target column present, transform raises the wrong-class-count
\* error whenever the number of distinct stringified values is not 2 (no rows,
\* one value, three or more), whether or not the values are configured
\* classes; the class-mismatch error is not the one raised.
C2_WrongClassCount ==
    (Transformed /\ TargetPresent /\ Cardinality(CellStrings) # 2)
    => outcome = Raise("WrongClassCount")

\* one observed class, which is not a configured one
C2_Witness ==
    /\ Transformed
    /\ TargetPresent
    /\ Cells = <<StrV("B"), StrV("B")>>
    /\ Range(encoder.classes_) = {"1", "A"}
    /\ outcome.kind = "WrongClassCount"

\* C3: an encoder with two distinct labels (a, b), given a target column with
\* exactly two distinct stringified values that are not {str(a), str(b)},
\* raises the class-mismatch error.
C3_ClassMismatch ==
    ( /\ Transformed
      /\ Len(Labels) = 2
      /\ Labels[1] # Labels[2]
      /\ TargetPresent
      /\ Cardinality(CellStrings) = 2
      /\ CellStrings # {LabelA, LabelB} )
    => outcome = Raise("ClassMismatch")

\* only one of the two observed classes is configured
C3_Witness ==
    /\ Transformed
    /\ Labels = <<StrV("A"), IntV(1)>>
    /\ TargetPresent
    /\ Cells = <<StrV("A"), StrV("B")>>
    /\ outcome.kind = "ClassMismatch"

\* C4: transform returns None exactly when the target column is absent; with
\* the column present it returns codes or raises a validation error.
C4_NoneIffAbsent ==
    Transformed =>
        /\ (outcome = None) <=> ~TargetPresent
        /\ TargetPresent =>
              outcome.kind \in {"Series", "WrongClassCount", "ClassMismatch"}

\* a dataset with rows and another column, but no target column
C4_Witness ==
    /\ Transformed
    /\ ~TargetPresent
    /\ arg.columns # {}
    /\ arg.nrows = 2
    /\ outcome = None

\* C6: after any sequence of fit and transform calls the encoder still has
\* the state construction gave it, the dataset passed is unchanged, fit
\* returned the instance itself, and the outcome of transform is the outcome
\* of the same call on a freshly constructed encoder.
C6_CallsLeaveNoTrace ==
    /\ encoder = get_target_encoder(schema)
    /\ data = arg
    /\ last = "fit" => returned = get_target_encoder(schema)
    /\ Transformed =>
          \/ ~TargetPresent /\ outcome = None
          \/ TargetPresent /\ outcome = Validate(get_target_encoder(schema),
                                                  [k \in DOMAIN Cells |-> Str(Cells[k])])

\* the state after a transform call that raised
C6_Witness ==
    /\ Transformed
    /\ arg.nrows = 3
    /\ outcome.kind = "ClassMismatch"
    /\ encoder = get_target_encoder(schema)

\* C8: whenever transform returns a sequence, the observed classes are
\* exactly {classes_[0], classes_[1]}, there is one element per row and each
\* element is 0 or 1.
C8_SeriesIsBinary ==
    (Transformed /\ outcome.kind = "Series")
    => /\ CellStrings = {encoder.classes_[1], encoder.classes_[2]}
       /\ Len(outcome.codes) = arg.nrows
       /\ \A k \in 1..Len(outcome.codes) : outcome.codes[k] \in {0, 1}

\* C9: an encoder built from [a, b, c, ...] gives, on every dataset, the
\* outcome of an encoder built from [a, b].
C9_ExtrasIgnored ==
    Transformed =>
        outcome = transform(CustomTargetEncoder(1, schema.target, SubSeq(Labels, 1, 2)),
                            arg).ret

\* C10: two allowed values with the same string form leave class_encoding
\* with the single key mapped to 1; transform then raises a validation error
\* on every dataset that has the target column, and returns None on one that
\* lacks it.
C10_SameStringLabels ==
    (Len(Labels) = 2 /\ LabelA = LabelB)
    => /\ encoder.class_encoding = [k \in {LabelA} |-> 1]
       /\ Transformed =>
             IF TargetPresent
             THEN outcome.kind \in {"WrongClassCount", "ClassMismatch"}
             ELSE outcome = None

\* labels 1 and "1"; the column holds the configured string and another one
C10_Witness ==
    /\ Transformed
    /\ Labels = <<IntV(1), StrV("1")>>
    /\ TargetPresent
    /\ Cells = <<IntV(1), StrV("A")>>
    /\ outcome.kind = "ClassMismatch"

C7_ConcurrentTransform ==
    /\ encoder = get_target_encoder(schema)
    /\ \A c \in 1..NCallers :
          pc[c] = "done" =>
              tret[c] = transform(get_target_encoder(schema), tdata[c]).ret

\* one caller has finished with codes while another is between its checks
C7_Witness ==
    /\ pc[1] = "done"
    /\ tret[1].kind = "Series"
    /\ pc[2] = "l51"
    /\ tdata[1] # tdata[2]

=============================================================================
